---- MODULE Spec2Model ----
(***************************************************************************)
(* Just-Dance: the pose-comparison and temporal-alignment scoring engine.  *)
(*                                                                         *)
(*   src/src/utils/poseComparison.ts (lines 1-217)  scorer, classifier,    *)
(*                                                   checkpoint locator    *)
(*   src/src/utils/poseDetector.ts                  pose backends          *)
(*   src/unnamed/part_003                           DanceCanvas, the       *)
(*                                                   scoring controller    *)
(*                                                                         *)
(* Numbers.  TLC has integers only, so the floating point quantities of    *)
(* the source are kept in fixed units:                                     *)
(*   time          1 unit = 0.05 s    (0.4 s = 8, 0.3 s = 6)               *)
(*   coordinates   1 unit = 0.05      (normalised image space)             *)
(*   visibility    1 unit = 0.1       (the 0.5 threshold = 5)              *)
(*   distances     1 unit = 0.0005    (DistScale per coordinate unit)      *)
(*   angles        whole degrees, rounded down                             *)
(*   similarity    1 unit = 0.01 point (100 = 10000)                       *)
(***************************************************************************)
EXTENDS Integers, Sequences, FiniteSets, Bags, TLC

\* null and undefined of the source.  A value that may be null is a tuple
\* (a Landmark Set, a mesh, a one-element option << v >>) or a string: TLC
\* compares a tuple with a string, and refuses records and numbers.  It reads
\* the string as the tuple of its characters, so no tuple of the runs has the
\* length of one of these strings (10, 11, 15, 16).
Null == "null value"

Undefined == "undefined value"

\* a similarity that is not a number: the call threw a TypeError
Thrown == 0 - 1

\* a result that is no value: the call threw a TypeError
TypeError == "TypeError thrown"

\* a JSON payload that is an object, such as {} or {"error": "not found"}
ObjectPayload == "{an object}"

\* a landmark whose optional visibility field is absent
NoVisibility == 0 - 1

----------------------------------------------------------------------------
(* Arithmetic helpers *)

Abs(n) == IF n < 0 THEN 0 - n ELSE n

Min(a, b) == IF a < b THEN a ELSE b

Max(a, b) == IF a > b THEN a ELSE b

RECURSIVE SqrtSearch(_, _, _)
SqrtSearch(n, lo, hi) ==
    IF lo >= hi THEN lo
    ELSE LET mid == (lo + hi + 1) \div 2
         IN  IF mid * mid <= n THEN SqrtSearch(n, mid, hi)
             ELSE SqrtSearch(n, lo, mid - 1)

\* Math.sqrt, rounded down to an integer
Sqrt(n) == SqrtSearch(n, 0, Min(n, 46340))

\* cos^2 of 0..90 degrees, times CosScale
CosScale == 100 * 1000

CosSqTable ==
    << 100000, 99970, 99878, 99726, 99513, 99240, 98907, 98515, 98063, 97553,
       96985, 96359, 95677, 94940, 94147, 93301, 92402, 91452, 90451, 89401,
       88302, 87157, 85967, 84733, 83457, 82139, 80783, 79389, 77960, 76496,
       75000, 73474, 71919, 70337, 68730, 67101, 65451, 63782, 62096, 60396,
       58682, 56959, 55226, 53488, 51745, 50000, 48255, 46512, 44774, 43041,
       41318, 39604, 37904, 36218, 34549, 32899, 31270, 29663, 28081, 26526,
       25000, 23504, 22040, 20611, 19217, 17861, 16543, 15267, 14033, 12843,
       11698, 10599, 9549, 8548, 7598, 6699, 5853, 5060, 4323, 3641,
       3015, 2447, 1937, 1485, 1093, 760, 487, 274, 122, 30,
       0 >>

CosSq(d) == IF d <= 90 THEN CosSqTable[d + 1] ELSE CosSqTable[180 - d + 1]

\* cos(d degrees) >= dot / sqrt(prod), decided on the squares
CosAtLeast(d, dot, prod) ==
    IF dot >= 0
    THEN d <= 90 /\ CosSq(d) * prod >= dot * dot * CosScale
    ELSE d <= 90 \/ CosSq(d) * prod <= dot * dot * CosScale

\* Math.acos(clamp(dot / sqrt(prod))) in degrees, rounded down
AcosDeg(dot, prod) ==
    CHOOSE d \in 0..180 :
        /\ CosAtLeast(d, dot, prod)
        /\ (d = 180 \/ ~CosAtLeast(d + 1, dot, prod))

----------------------------------------------------------------------------
(* poseComparison.ts *)

\* A Landmark Set is a sequence of Landmarks; joint i of the source is ls[i+1].
Landmark(x, y, z, v) == [x |-> x, y |-> y, z |-> z, visibility |-> v]

HasIndex(ls, i) == i + 1 \in DOMAIN ls

At(ls, i) == ls[i + 1]

Vec(a, b) == [x |-> b.x - a.x, y |-> b.y - a.y, z |-> b.z - a.z]

Dot(v1, v2) == v1.x * v2.x + v1.y * v2.y + v1.z * v2.z

calculateAngle(v1, v2) ==
    LET dotProduct == Dot(v1, v2)
        sq1 == Dot(v1, v1)
        sq2 == Dot(v2, v2)
    IN  IF sq1 = 0 \/ sq2 = 0 THEN 0
        ELSE AcosDeg(dotProduct, sq1 * sq2)

\* weights are kept doubled: 2.5 -> 5, 2.0 -> 4
anglePairs ==
    << [joint |-> 13, parent1 |-> 11, parent2 |-> 15, weight |-> 5],
       [joint |-> 11, parent1 |-> 13, parent2 |-> 23, weight |-> 4],
       [joint |-> 14, parent1 |-> 12, parent2 |-> 16, weight |-> 5],
       [joint |-> 12, parent1 |-> 14, parent2 |-> 24, weight |-> 4],
       [joint |-> 25, parent1 |-> 23, parent2 |-> 27, weight |-> 5],
       [joint |-> 23, parent1 |-> 25, parent2 |-> 11, weight |-> 4],
       [joint |-> 26, parent1 |-> 24, parent2 |-> 28, weight |-> 5],
       [joint |-> 24, parent1 |-> 26, parent2 |-> 12, weight |-> 4] >>

VisibilityThreshold == 5

DistScale == 10 * 10

\* Math.sqrt(dx^2 + dy^2 + dz^2), in distance units
Distance(a, b) ==
    LET d == Vec(a, b)
    IN  Sqrt(Dot(d, d) * DistScale * DistScale)

\* variant that leaves a joint out only when it is hidden in both sets: C21
\* does not hold of it
RECURSIVE DistanceLoopEither(_, _, _, _)
DistanceLoopEither(user, target, i, acc) ==
    IF i >= Len(user) THEN acc
    ELSE IF At(user, i).visibility < VisibilityThreshold
            /\ At(target, i).visibility < VisibilityThreshold
         THEN DistanceLoopEither(user, target, i + 1, acc)
         ELSE DistanceLoopEither(user, target, i + 1,
                                 [sum |-> acc.sum + Distance(At(user, i), At(target, i)),
                                  n |-> acc.n + 1])

\* lines 63-81: [sum |-> totalDistance, n |-> totalDistanceWeight]
RECURSIVE DistanceLoop(_, _, _, _)
DistanceLoop(user, target, i, acc) ==
    IF i >= Len(user) THEN acc
    ELSE IF At(user, i).visibility < VisibilityThreshold
            \/ At(target, i).visibility < VisibilityThreshold
         THEN DistanceLoop(user, target, i + 1, acc)
         ELSE DistanceLoop(user, target, i + 1,
                           [sum |-> acc.sum + Distance(At(user, i), At(target, i)),
                            n |-> acc.n + 1])

\* lines 83-86: clamp(0, 100, (1 - avgDistance / 0.15) * 100); 0.15 = 3 * DistScale
DistanceSimilarity(acc) ==
    IF acc.n = 0 THEN 0
    ELSE Max(0, Min(10000, 10000 - (acc.sum * 10000) \div (acc.n * 3 * DistScale)))

\* lines 96-101: the visibility test of one angle pair, evaluated left to
\* right with short circuit: "skip", "use", or "throw" when a Landmark Set
\* has no entry at an index that is read
RECURSIVE VisibilityScan(_)
VisibilityScan(reads) ==
    IF reads = << >> THEN "use"
    ELSE LET r == Head(reads)
         IN  IF ~HasIndex(r.ls, r.i) THEN "throw"
             ELSE IF At(r.ls, r.i).visibility < VisibilityThreshold THEN "skip"
             ELSE VisibilityScan(Tail(reads))

\* variant that tests the user's three joints only: C26 does not hold of it
PairVisibilityOfUser(user, target, pair) ==
    VisibilityScan(<< [ls |-> user, i |-> pair.joint],
                      [ls |-> user, i |-> pair.parent1],
                      [ls |-> user, i |-> pair.parent2] >>)

PairVisibility(user, target, pair) ==
    VisibilityScan(<< [ls |-> user, i |-> pair.joint],
                      [ls |-> user, i |-> pair.parent1],
                      [ls |-> user, i |-> pair.parent2],
                      [ls |-> target, i |-> pair.joint],
                      [ls |-> target, i |-> pair.parent1],
                      [ls |-> target, i |-> pair.parent2] >>)

JointAngle(ls, pair) ==
    calculateAngle(Vec(At(ls, pair.joint), At(ls, pair.parent1)),
                   Vec(At(ls, pair.joint), At(ls, pair.parent2)))

\* lines 92-135: [sum |-> totalAngleDiff, w |-> totalAngleWeight, thrown |-> ...]
RECURSIVE AngleLoop(_, _, _, _)
AngleLoop(user, target, k, acc) ==
    IF k > Len(anglePairs) THEN acc
    ELSE LET pair == anglePairs[k]
             vis == PairVisibility(user, target, pair)
         IN  IF vis = "throw" THEN [acc EXCEPT !.thrown = TRUE]
             ELSE IF vis = "skip" THEN AngleLoop(user, target, k + 1, acc)
             ELSE LET angleDiff == Abs(JointAngle(user, pair) - JointAngle(target, pair))
                  IN  AngleLoop(user, target, k + 1,
                                [acc EXCEPT !.sum = acc.sum + angleDiff * pair.weight,
                                            !.w = acc.w + pair.weight])

\* variant that leaves the angular term at its best when no angle is
\* computable: C22 does not hold of it
AngleSimilarityLenient(acc) ==
    IF acc.w = 0 THEN 10000
    ELSE Max(0, Min(10000, 10000 - (acc.sum * 10000) \div (acc.w * 30)))

\* variant that takes 180 degrees when the summed difference is 0, not when
\* the summed weight is 0: C20 does not hold of it
AngleSimilarityOfSum(acc) ==
    IF acc.sum = 0 THEN 0
    ELSE Max(0, Min(10000, 10000 - (acc.sum * 10000) \div (acc.w * 30)))

\* lines 137-140: clamp(0, 100, (1 - avgAngleDiff / 30) * 100), 180 when no angle
AngleSimilarity(acc) ==
    IF acc.w = 0 THEN 0
    ELSE Max(0, Min(10000, 10000 - (acc.sum * 10000) \div (acc.w * 30)))

\* variant without the length test of line 39, where line 68 reads a target
\* landmark that is not there when the user's set is the longer one: C19 does
\* not hold of it
calculatePoseSimilarityAnyLength(userLandmarks, targetLandmarks) ==
    IF \/ userLandmarks = Null \/ userLandmarks = Undefined
       \/ targetLandmarks = Null \/ targetLandmarks = Undefined
    THEN 0
    ELSE IF Len(userLandmarks) > Len(targetLandmarks) THEN Thrown
    ELSE LET dist == DistanceLoop(userLandmarks, targetLandmarks, 0, [sum |-> 0, n |-> 0])
             ang == AngleLoop(userLandmarks, targetLandmarks, 1,
                              [sum |-> 0, w |-> 0, thrown |-> FALSE])
         IN  IF ang.thrown THEN Thrown
             ELSE (AngleSimilarity(ang) * 6 + DistanceSimilarity(dist) * 4) \div 10

\* similarity in 1/100 points, or Thrown
calculatePoseSimilarity(userLandmarks, targetLandmarks) ==
    IF \/ userLandmarks = Null \/ userLandmarks = Undefined
       \/ targetLandmarks = Null \/ targetLandmarks = Undefined
    THEN 0
    ELSE IF Len(userLandmarks) # Len(targetLandmarks) THEN 0
    ELSE LET dist == DistanceLoop(userLandmarks, targetLandmarks, 0, [sum |-> 0, n |-> 0])
             ang == AngleLoop(userLandmarks, targetLandmarks, 1,
                              [sum |-> 0, w |-> 0, thrown |-> FALSE])
         IN  IF ang.thrown THEN Thrown
             ELSE (AngleSimilarity(ang) * 6 + DistanceSimilarity(dist) * 4) \div 10

\* variant with the points of two tiers exchanged: C23 does not hold of it
getScoreFeedbackExchanged(similarity) ==
    IF similarity >= 9500 THEN [feedback |-> "Perfect!", points |-> 100]
    ELSE IF similarity >= 8500 THEN [feedback |-> "Great!", points |-> 30]
    ELSE IF similarity >= 7000 THEN [feedback |-> "Good!", points |-> 60]
    ELSE IF similarity >= 5000 THEN [feedback |-> "Almost!", points |-> 10]
    ELSE [feedback |-> "Keep trying!", points |-> 0]

\* variant with exclusive lower bounds: C24 does not hold of it
getScoreFeedbackAbove(similarity) ==
    IF similarity > 9500 THEN [feedback |-> "Perfect!", points |-> 100]
    ELSE IF similarity > 8500 THEN [feedback |-> "Great!", points |-> 60]
    ELSE IF similarity > 7000 THEN [feedback |-> "Good!", points |-> 30]
    ELSE IF similarity > 5000 THEN [feedback |-> "Almost!", points |-> 10]
    ELSE [feedback |-> "Keep trying!", points |-> 0]

\* lines 153-165; similarity in 1/100 points
getScoreFeedback(similarity) ==
    IF similarity >= 9500 THEN [feedback |-> "Perfect!", points |-> 100]
    ELSE IF similarity >= 8500 THEN [feedback |-> "Great!", points |-> 60]
    ELSE IF similarity >= 7000 THEN [feedback |-> "Good!", points |-> 30]
    ELSE IF similarity >= 5000 THEN [feedback |-> "Almost!", points |-> 10]
    ELSE [feedback |-> "Keep trying!", points |-> 0]

Tolerance == 6

\* variant of the scan that keeps the last checkpoint of minimal distance:
\* C30 does not hold of it
RECURSIVE NearestScanLast(_, _, _, _, _)
NearestScanLast(checkpoints, currentTime, k, nearest, minDiff) ==
    IF k > Len(checkpoints) THEN [nearest |-> nearest, minDiff |-> minDiff]
    ELSE LET diff == Abs(checkpoints[k].time - currentTime)
         IN  IF diff <= minDiff
             THEN NearestScanLast(checkpoints, currentTime, k + 1, checkpoints[k], diff)
             ELSE NearestScanLast(checkpoints, currentTime, k + 1, nearest, minDiff)

\* lines 185-191: the scan, keeping the first checkpoint of minimal distance
RECURSIVE NearestScan(_, _, _, _, _)
NearestScan(checkpoints, currentTime, k, nearest, minDiff) ==
    IF k > Len(checkpoints) THEN [nearest |-> nearest, minDiff |-> minDiff]
    ELSE LET diff == Abs(checkpoints[k].time - currentTime)
         IN  IF diff < minDiff
             THEN NearestScan(checkpoints, currentTime, k + 1, checkpoints[k], diff)
             ELSE NearestScan(checkpoints, currentTime, k + 1, nearest, minDiff)

\* variant without the tolerance of line 194: C9 does not hold of it
findNearestAnywhere(checkpoints, currentTime) ==
    IF checkpoints = Null \/ Len(checkpoints) = 0 THEN Null
    ELSE << NearestScan(checkpoints, currentTime, 1, checkpoints[1],
                        Abs(checkpoints[1].time - currentTime)).nearest >>

\* variant that returns the first checkpoint within the tolerance, not the
\* nearest: C16 does not hold of it
RECURSIVE FirstWithin(_, _, _)
FirstWithin(checkpoints, currentTime, k) ==
    IF k > Len(checkpoints) THEN Null
    ELSE IF Abs(checkpoints[k].time - currentTime) <= Tolerance
         THEN << checkpoints[k] >>
         ELSE FirstWithin(checkpoints, currentTime, k + 1)

findFirstWithin(checkpoints, currentTime) ==
    IF checkpoints = Null THEN Null
    ELSE IF checkpoints = ObjectPayload THEN TypeError
    ELSE FirstWithin(checkpoints, currentTime, 1)

\* variant with a tolerance window that is open: C17 does not hold of it
findNearestStrict(checkpoints, currentTime) ==
    IF checkpoints = Null THEN Null
    ELSE IF checkpoints = ObjectPayload THEN TypeError
    ELSE IF Len(checkpoints) = 0 THEN Null
    ELSE LET r == NearestScan(checkpoints, currentTime, 1, checkpoints[1],
                              Abs(checkpoints[1].time - currentTime))
         IN  IF r.minDiff < Tolerance THEN << r.nearest >> ELSE Null

\* variant without the length test of line 177: C13 does not hold of it
findNearestUnchecked(checkpoints, currentTime) ==
    IF checkpoints = Null THEN Null
    ELSE IF checkpoints = ObjectPayload THEN TypeError
    ELSE IF Len(checkpoints) = 0 THEN TypeError
    ELSE LET r == NearestScan(checkpoints, currentTime, 1, checkpoints[1],
                              Abs(checkpoints[1].time - currentTime))
         IN  IF r.minDiff <= Tolerance THEN << r.nearest >> ELSE Null

\* the checkpoint found, as << checkpoint >>, or Null.  For a payload that is
\* an object and no array, length is undefined, checkpoints[0] is undefined
\* and line 183 reads .time of it
findNearestCheckpoint(checkpoints, currentTime) ==
    IF checkpoints = Null THEN Null
    ELSE IF checkpoints = ObjectPayload THEN TypeError
    ELSE IF Len(checkpoints) = 0 THEN Null
    ELSE LET r == NearestScan(checkpoints, currentTime, 1, checkpoints[1],
                              Abs(checkpoints[1].time - currentTime))
         IN  IF r.minDiff <= Tolerance THEN << r.nearest >> ELSE Null

\* results.poseLandmarks.map(lm => ({..., visibility: lm.visibility || 0}))
RECURSIVE MapLandmarks(_)
MapLandmarks(lms) ==
    IF lms = << >> THEN << >>
    ELSE LET lm == Head(lms)
         IN  << Landmark(lm.x, lm.y, lm.z,
                         IF lm.visibility = NoVisibility THEN 0 ELSE lm.visibility) >>
             \o MapLandmarks(Tail(lms))

resultsToLandmarks(results) ==
    IF results.poseLandmarks = Undefined THEN Null
    ELSE MapLandmarks(results.poseLandmarks)

----------------------------------------------------------------------------
(* Inputs: Landmark Sets and Action Meshes the runs draw from *)

\* the backend's fixed joint count (indices 0..32)
NumJoints == 33

\* a standing pose with the arms stretched out; coordinates in units of 0.05
JointXY(i) ==
    CASE i = 11 -> << 12, 6 >>  [] i = 12 -> << 8, 6 >>
      [] i = 13 -> << 15, 6 >>  [] i = 14 -> << 5, 6 >>
      [] i = 15 -> << 18, 6 >>  [] i = 16 -> << 2, 6 >>
      [] i = 23 -> << 12, 12 >> [] i = 24 -> << 8, 12 >>
      [] i = 25 -> << 12, 15 >> [] i = 26 -> << 8, 15 >>
      [] i = 27 -> << 12, 18 >> [] i = 28 -> << 8, 18 >>
      [] OTHER -> << 10, 3 >>

RECURSIVE BuildPose(_, _)
BuildPose(n, v) ==
    IF n = 0 THEN << >>
    ELSE Append(BuildPose(n - 1, v),
                Landmark(JointXY(n - 1)[1], JointXY(n - 1)[2], 0, v))

ArmsOut == BuildPose(NumJoints, 10)

\* the left wrist one unit low: the left elbow is bent by about 18 degrees
WristLow == [ArmsOut EXCEPT ![16] = Landmark(18, 7, 0, 10)]

\* both arms hanging down
ArmsDown ==
    [ArmsOut EXCEPT ![14] = Landmark(12, 9, 0, 10), ![16] = Landmark(12, 12, 0, 10),
                    ![15] = Landmark(8, 9, 0, 10), ![17] = Landmark(8, 12, 0, 10)]

\* nothing detected with confidence
Hidden == BuildPose(NumJoints, 2)

LandmarkSets == { ArmsOut, WristLow, ArmsDown, Hidden }

\* a pose recorded by a tool that keeps the joints 0..16 only
ShortJoints == 17

UpperBody == BuildPose(ShortJoints, 10)

\* the left elbow on the left shoulder: both vectors of the left shoulder's
\* angle, and one of the left elbow's, have length 0
Folded == [ArmsOut EXCEPT ![14] = Landmark(12, 6, 0, 10)]

\* every joint at one point: every angle vector has length 0
RECURSIVE Repeat(_, _)
Repeat(lm, n) == IF n = 0 THEN << >> ELSE Append(Repeat(lm, n - 1), lm)

OnePoint == Repeat(Landmark(10, 3, 0, 10), NumJoints)

\* the first n landmarks of ls, those of the joints in `joints` with
\* visibility v
RECURSIVE Dimmed(_, _, _, _)
Dimmed(ls, joints, v, n) ==
    IF n = 0 THEN << >>
    ELSE Append(Dimmed(ls, joints, v, n - 1),
                IF n - 1 \in joints
                THEN Landmark(ls[n].x, ls[n].y, ls[n].z, v)
                ELSE ls[n])

JointIndices == 0..(NumJoints - 1)

\* the joints of even index seen with low confidence
HiddenEven ==
    Dimmed(ArmsOut, { j \in JointIndices : j % 2 = 0 }, 2, NumJoints)

\* the joints of odd index seen with low confidence
HiddenOdd ==
    Dimmed(WristLow, { j \in JointIndices : j % 2 = 1 }, 2, NumJoints)

\* shoulders and hips seen with low confidence: every angle definition uses
\* one of them
NoTorso == Dimmed(ArmsOut, { 11, 12, 23, 24 }, 2, NumJoints)

\* every joint seen with a confidence of exactly 0.5
ArmsOutHalf == Dimmed(ArmsOut, JointIndices, VisibilityThreshold, NumJoints)

WristLowHalf == Dimmed(WristLow, JointIndices, VisibilityThreshold, NumJoints)

\* the arguments calculatePoseSimilarity is called with on its own, by name
PoseNames ==
    { "armsOut", "wristLow", "armsDown", "hidden", "folded", "onePoint",
      "hiddenEven", "hiddenOdd", "noTorso", "armsOutHalf", "wristLowHalf",
      "upperBody", "empty", "null", "undefined" }

PoseOf(name) ==
    CASE name = "armsOut" -> ArmsOut
      [] name = "wristLow" -> WristLow
      [] name = "armsDown" -> ArmsDown
      [] name = "hidden" -> Hidden
      [] name = "folded" -> Folded
      [] name = "onePoint" -> OnePoint
      [] name = "hiddenEven" -> HiddenEven
      [] name = "hiddenOdd" -> HiddenOdd
      [] name = "noTorso" -> NoTorso
      [] name = "armsOutHalf" -> ArmsOutHalf
      [] name = "wristLowHalf" -> WristLowHalf
      [] name = "upperBody" -> UpperBody
      [] name = "empty" -> << >>
      [] name = "null" -> Null
      [] OTHER -> Undefined

\* the Landmark Sets the checkpoints of the runs hold
TargetSets == LandmarkSets \cup { UpperBody }

\* calculatePoseSimilarity, tabulated over the Landmark Sets of the runs
Similarity ==
    [ u \in LandmarkSets, t \in TargetSets |-> calculatePoseSimilarity(u, t) ]

\* what a backend can hand to the result handler, by name: results with a
\* Landmark Set, or results without poseLandmarks (no body in the frame)
BackendResults == { "armsOut", "wristLow", "armsDown", "hidden", "nobody" }

Results(name) ==
    CASE name = "armsOut" -> [poseLandmarks |-> ArmsOut]
      [] name = "wristLow" -> [poseLandmarks |-> WristLow]
      [] name = "armsDown" -> [poseLandmarks |-> ArmsDown]
      [] name = "hidden" -> [poseLandmarks |-> Hidden]
      [] OTHER -> [poseLandmarks |-> Undefined]

\* the Action Mesh files the server holds, by name: a well formed mesh, an
\* empty one, one whose checkpoint holds 17 landmarks, and a file that holds
\* an object
MeshIds == { "mesh1", "empty", "short", "object" }

MeshData(id) ==
    CASE id = "mesh1" ->
             << [time |-> 0, landmarks |-> ArmsOut],
                [time |-> 20, landmarks |-> ArmsOut] >>
      [] id = "empty" -> << >>
      [] id = "short" -> << [time |-> 20, landmarks |-> UpperBody] >>
      [] OTHER -> ObjectPayload

\* the video whose mesh is well formed
VideoUrls == { "video1" }

\* the videos whose mesh is not
OddVideoUrls == { "videoEmpty", "videoShort", "videoObject" }

\* /processed/${youtubeId}_action_mesh.json: the file served for a video
MeshOf(url) ==
    CASE url = "video1" -> "mesh1"
      [] url = "videoEmpty" -> "empty"
      [] url = "videoShort" -> "short"
      [] OTHER -> "object"

\* the playback positions of the reference video at which something happens
Instants == { 0, 4, 10, 20, 26 }

\* the video ends at its last instant
Duration == CHOOSE t \in Instants : \A u \in Instants : u <= t

\* at most this many loop invocations alive at once
MaxChains == 2

\* at most this many mesh requests without a response at once
MaxFetches == 2

\* Inputs of findNearestCheckpoint called on its own: meshes of up to
\* MaxMeshLen checkpoints, in any order and with repeated times, and no mesh
MaxMeshLen == 3

CheckpointTimes == { 0, 20, 28, 40 }

QueryTimes == { 3, 14, 24, 25, 26, 34, 47 }

TimeLists == UNION { [1..n -> CheckpointTimes] : n \in 0..MaxMeshLen }

\* the mesh with these times; the k-th checkpoint holds k landmarks, which
\* tells checkpoints of the same time apart
RECURSIVE Checkpoints(_, _)
Checkpoints(times, n) ==
    IF n = 0 THEN << >>
    ELSE Append(Checkpoints(times, n - 1),
                [time |-> times[n], landmarks |-> BuildPose(n, 10)])

----------------------------------------------------------------------------
(* poseDetector.ts *)

MediaPipe == "Google Media Pipe"

Meta3D == "Meta 3D Body"

Models == { MediaPipe, Meta3D }

\* Meta3DBodyDetector.onResults drops the callback; MediaPipeDetector.onResults
\* registers it with the pose
CallbackRegistered(det) == det.model = MediaPipe

----------------------------------------------------------------------------
(* DanceCanvas (part_003) *)

VARIABLES
    detectionModel,     \* useSettings().detectionModel
    processedVideoUrl,  \* the prop: Null or a url
    actionMesh,         \* useState: Null or the loaded mesh
    fetches,            \* mesh requests still without a response
    detector,           \* useState: the user camera detector, with the values
                        \* its result handler closed over
    lastScoredTime,     \* lastScoredTimeRef.current
    isRunning,          \* isRunning.current
    chains,             \* the loop invocations alive: a bag of
                        \* [phase, det, last]; last marks the frame request
                        \* whose id requestRef.current holds
    videoState,         \* the reference player: "paused", "playing", "ended"
    currentTime,        \* the reference player's position
    emitted,            \* the onScoreUpdate call made by the last step: its
                        \* arguments, or NoEvent
    tick,               \* the result handler run made by the last step: its
                        \* inputs, or NoTick
    call,               \* a call of one of the functions of poseComparison.ts
                        \* on its own, with its result; NoCall in the runs of
                        \* the component
    page,               \* the Home page: its state and the updates of it
                        \* that wait for the next render
    backends            \* the detectors created by the detector effect, the
                        \* open ones, and the one its cleanup closes

vars == << detectionModel, processedVideoUrl, actionMesh, fetches, detector,
           lastScoredTime, isRunning, chains, videoState, currentTime,
           emitted, tick, call, page, backends >>

\* page.tsx lines 8-11: no video chosen, score 0; `total` is the sum of the
\* points of the events since the last reset, `before` and `last` are the
\* score before the last step of the page and that step
InitialPage ==
    [youtubeId |-> Null, score |-> 0, queue |-> << >>, total |-> 0,
     events |-> 0, before |-> 0, last |-> "none"]

\* no detector effect has run: `runs` counts the runs of the effect, `held`
\* is the run whose user detector the state `detector` holds (0 for null),
\* `captured` the one the cleanup of the last run closed over
InitialBackends == [runs |-> 0, held |-> 0, captured |-> 0, open |-> {}]

NoEvent == [points |-> 0, feedback |-> "none"]

MinInterval == 8

\* line 43: useRef<number>(0)
InitialLastScoredTime == 0

\* lines 69-108: createDetector and the handler registered on it, which closes
\* over the actionMesh and processedVideoUrl of the render the effect ran in
NewDetector(model, mesh, url) == [model |-> model, mesh |-> mesh, url |-> url]

NoTick ==
    [results |-> "none", time |-> 0, before |-> 0, running |-> FALSE,
     det |-> NewDetector("none", Null, Null), threw |-> FALSE]

NoCall == [fn |-> "none"]

Chain(phase, det, last) == [phase |-> phase, det |-> det, last |-> last]

Add(B, c) == B (+) SetToBag({c})

Remove(B, c) == B (-) SetToBag({c})

Requested(B) == { c \in BagToSet(B) : c.last }

\* cancelAnimationFrame(requestRef.current): only the frame requested last can
\* be cancelled, and only while it is pending
cancelAnimationFrame(B) ==
    IF Requested(B) = {} THEN B
    ELSE Remove(B, CHOOSE c \in Requested(B) : TRUE)

\* requestRef.current = requestAnimationFrame(loop): the id held before is lost
requestAnimationFrame(B, det) ==
    LET old == Requested(B)
        kept == IF old = {} THEN B
                ELSE LET c == CHOOSE x \in old : TRUE
                     IN  Add(Remove(B, c), [c EXCEPT !.last = FALSE])
    IN  Add(kept, Chain("raf", det, TRUE))

\* line 157-161: the demo score of the frame loop, when Math.random() > 0.95
RandomEvents ==
    { [points |-> 100, feedback |-> "Perfect"],
      [points |-> 50, feedback |-> "Great"],
      [points |-> 10, feedback |-> "Good"] }

\* A loop() run is not decided by the component alone: the webcam may or may
\* not be ready, a detector's pose may or may not be initialised, the screen
\* analysis may or may not be active, Math.random() varies.  Each part of
\* loop() is the set of its outcomes over these.

\* a send of this detector can stay pending: MediaPipe with its pose initialised
SendCanPend(det) == det.model = MediaPipe

\* lines 165-201: the screen analysis, which awaits videoDetector.send (the
\* video detector is created with the model of det), and the frame request
LoopTail(B, det) ==
    { requestAnimationFrame(B, det) }
    \cup (IF SendCanPend(det) THEN { Add(B, Chain("videoSend", det, FALSE)) } ELSE {})

\* lines 154-162 and on, after await detector.send
AfterSend(B, det) ==
    { [chains |-> t, emit |-> e] :
        t \in LoopTail(B, det), e \in RandomEvents \cup {NoEvent} }

\* lines 143-202: loop() from its first line, B the other invocations
loop(running, B, det) ==
    { [chains |-> t, emit |-> NoEvent] : t \in LoopTail(B, det) }
    \cup (IF running THEN AfterSend(B, det) ELSE {})
    \cup (IF running /\ SendCanPend(det)
          THEN { [chains |-> Add(B, Chain("send", det, FALSE)), emit |-> NoEvent] }
          ELSE {})

Bounded(B) == BagCardinality(B) <= MaxChains

\* the component once mounted, with one of urls as the processed video or none
InitOn(urls) ==
    /\ detectionModel \in Models
    /\ processedVideoUrl \in urls \cup {Null}
    /\ actionMesh = Null
    /\ fetches = IF processedVideoUrl = Null THEN EmptyBag
                 ELSE SetToBag({processedVideoUrl})
    /\ detector = NewDetector(detectionModel, Null, processedVideoUrl)
    /\ lastScoredTime = InitialLastScoredTime
    /\ isRunning = FALSE
    /\ chains = EmptyBag
    /\ videoState = "paused"
    /\ currentTime = 0
    /\ emitted = NoEvent
    /\ tick = NoTick
    /\ call = NoCall
    /\ page = InitialPage
    /\ backends = InitialBackends

Init == InitOn(VideoUrls)

\* line 82: processedVideoRef.current?.currentTime || 0; the video element is
\* rendered only while processedVideoUrl is set
ReferenceTime == IF processedVideoUrl = Null THEN 0 ELSE currentTime

\* variant of the guard that rejects nothing: C1 does not hold of it
ScoredRecentlyNever(time, last) == FALSE

\* lines 85-88: the guard against scoring a checkpoint twice
ScoredRecently(time, last) == time - last < MinInterval

\* variant that emits without stamping the time: C7 does not hold of it
AwardUnstamped(fb, time, last) ==
    [emit |-> IF fb.points > 0
              THEN [points |-> fb.points, feedback |-> fb.feedback]
              ELSE NoEvent,
     last |-> last]

\* variant that stamps the time of a zero-point tick: C8 does not hold of it
AwardStamped(fb, time, last) ==
    [emit |-> IF fb.points > 0
              THEN [points |-> fb.points, feedback |-> fb.feedback]
              ELSE NoEvent,
     last |-> time]

\* lines 98-102: an event is emitted, and the time stamped, for points > 0 only
Award(fb, time, last) ==
    IF fb.points > 0
    THEN [emit |-> [points |-> fb.points, feedback |-> fb.feedback],
          last |-> time]
    ELSE [emit |-> NoEvent, last |-> last]

\* lines 81-104: the scoring part of the result handler of detector det, run
\* on results at reference time `time`: the event it emits and the new
\* lastScoredTimeRef.current
Score(det, results, time, last) ==
    LET skip == [emit |-> NoEvent, last |-> last, threw |-> FALSE]
        throw == [emit |-> NoEvent, last |-> last, threw |-> TRUE]
    IN  IF det.mesh = Null \/ det.url = Null \/ results.poseLandmarks = Undefined
        THEN skip
        ELSE IF ScoredRecently(time, last) THEN skip
        ELSE LET checkpoint == findNearestCheckpoint(MeshData(det.mesh), time)
             IN  IF checkpoint = TypeError THEN throw
                 ELSE IF checkpoint = Null THEN skip
                 ELSE LET userLandmarks == resultsToLandmarks(results)
                          similarity ==
                              Similarity[userLandmarks, checkpoint[1].landmarks]
                          award == Award(getScoreFeedback(similarity), time, last)
                      IN  IF userLandmarks = Null THEN skip
                          ELSE IF similarity = Thrown THEN throw
                          ELSE [emit |-> award.emit, last |-> award.last,
                                threw |-> FALSE]

\* lines 73-106: the backend delivers the results of the frame of invocation c
OnResults(c, results) ==
    /\ c \in BagToSet(chains)
    /\ c.phase = "send"
    /\ CallbackRegistered(c.det)
    /\ LET out == Score(c.det, Results(results), ReferenceTime, lastScoredTime)
       IN  /\ emitted' = out.emit
           /\ lastScoredTime' = out.last
           /\ tick' = [results |-> results, time |-> ReferenceTime,
                       before |-> lastScoredTime, running |-> isRunning,
                       det |-> c.det, threw |-> out.threw]
    /\ chains' = Add(Remove(chains, c), [c EXCEPT !.phase = "sent"])
    /\ UNCHANGED << call, page, backends, detectionModel, processedVideoUrl, actionMesh, fetches,
                    detector, isRunning, videoState, currentTime >>

\* line 152 returns: the promise of detector.send is resolved
SendResolves(c) ==
    /\ c \in BagToSet(chains)
    /\ c.phase \in { "send", "sent" }
    /\ \E out \in AfterSend(Remove(chains, c), c.det) :
           /\ chains' = out.chains
           /\ emitted' = out.emit
    /\ tick' = NoTick
    /\ UNCHANGED << call, page, backends, detectionModel, processedVideoUrl, actionMesh, fetches,
                    detector, lastScoredTime, isRunning, videoState, currentTime >>

\* line 152 throws: the promise of detector.send is rejected, and so is the
\* promise of this loop(); nothing after line 152 runs
SendRejects(c) ==
    /\ c \in BagToSet(chains)
    /\ c.phase \in { "send", "sent" }
    /\ chains' = Remove(chains, c)
    /\ emitted' = NoEvent
    /\ tick' = NoTick
    /\ UNCHANGED << call, page, backends, detectionModel, processedVideoUrl, actionMesh, fetches,
                    detector, lastScoredTime, isRunning, videoState, currentTime >>

\* line 196 returns: the promise of videoDetector.send is resolved
VideoSendResolves(c) ==
    /\ c \in BagToSet(chains)
    /\ c.phase = "videoSend"
    /\ chains' = requestAnimationFrame(Remove(chains, c), c.det)
    /\ emitted' = NoEvent
    /\ tick' = NoTick
    /\ UNCHANGED << call, page, backends, detectionModel, processedVideoUrl, actionMesh, fetches,
                    detector, lastScoredTime, isRunning, videoState, currentTime >>

\* the browser runs a requested animation frame: loop() of that closure
FrameFires(c) ==
    /\ c \in BagToSet(chains)
    /\ c.phase = "raf"
    /\ \E out \in loop(isRunning, Remove(chains, c), c.det) :
           /\ chains' = out.chains
           /\ emitted' = out.emit
    /\ tick' = NoTick
    /\ UNCHANGED << call, page, backends, detectionModel, processedVideoUrl, actionMesh, fetches,
                    detector, lastScoredTime, isRunning, videoState, currentTime >>

\* lines 259-263: onPlay of the processed video (a replay starts at 0)
OnPlay ==
    /\ processedVideoUrl # Null
    /\ videoState # "playing"
    /\ videoState' = "playing"
    /\ currentTime' = IF videoState = "ended" THEN 0 ELSE currentTime
    /\ isRunning' = TRUE
    /\ \E out \in loop(TRUE, chains, detector) :
           /\ Bounded(out.chains)
           /\ chains' = out.chains
           /\ emitted' = out.emit
    /\ tick' = NoTick
    /\ UNCHANGED << call, page, backends, detectionModel, processedVideoUrl, actionMesh, fetches,
                    detector, lastScoredTime >>

\* lines 264-268
OnPause ==
    /\ processedVideoUrl # Null
    /\ videoState = "playing"
    /\ videoState' = "paused"
    /\ isRunning' = FALSE
    /\ chains' = cancelAnimationFrame(chains)
    /\ emitted' = NoEvent
    /\ tick' = NoTick
    /\ UNCHANGED << call, page, backends, detectionModel, processedVideoUrl, actionMesh, fetches,
                    detector, lastScoredTime, currentTime >>

\* lines 269-275
OnEnded ==
    /\ processedVideoUrl # Null
    /\ videoState = "playing"
    /\ currentTime = Duration
    /\ videoState' = "ended"
    /\ isRunning' = FALSE
    /\ chains' = cancelAnimationFrame(chains)
    /\ emitted' = NoEvent
    /\ tick' = NoTick
    /\ UNCHANGED << call, page, backends, detectionModel, processedVideoUrl, actionMesh, fetches,
                    detector, lastScoredTime, currentTime >>

\* the processed video plays on
TimePasses(t) ==
    /\ processedVideoUrl # Null
    /\ videoState = "playing"
    /\ t \in Instants
    /\ t > currentTime
    /\ currentTime' = t
    /\ emitted' = NoEvent
    /\ tick' = NoTick
    /\ UNCHANGED << call, page, backends, detectionModel, processedVideoUrl, actionMesh, fetches,
                    detector, lastScoredTime, isRunning, chains, videoState >>

\* lines 217-227: onPlayerStateChange of the YouTube player, which is rendered
\* while there is no processed video; 1 is "playing"
OnPlayerStateChange(data) ==
    /\ processedVideoUrl = Null
    /\ IF data = 1
       THEN /\ videoState # "playing"
            /\ videoState' = "playing"
            /\ isRunning' = TRUE
            /\ \E out \in loop(TRUE, chains, detector) :
                   /\ Bounded(out.chains)
                   /\ chains' = out.chains
                   /\ emitted' = out.emit
       ELSE /\ videoState' = "paused"
            /\ isRunning' = FALSE
            /\ chains' = cancelAnimationFrame(chains)
            /\ emitted' = NoEvent
    /\ tick' = NoTick
    /\ UNCHANGED << call, page, backends, detectionModel, processedVideoUrl, actionMesh, fetches,
                    detector, lastScoredTime, currentTime >>

\* lines 204-211: the effect on [loop, detector], run when loop has a new
\* identity: its cleanup, then its body, with the detector of the new render
LoopEffect(B, det) ==
    IF isRunning THEN requestAnimationFrame(cancelAnimationFrame(B), det)
    ELSE cancelAnimationFrame(B)

\* the parent renders again and passes a new onScoreUpdate
Rerender ==
    /\ chains' = LoopEffect(chains, detector)
    /\ Bounded(chains')
    /\ emitted' = NoEvent
    /\ tick' = NoTick
    /\ UNCHANGED << call, page, backends, detectionModel, processedVideoUrl, actionMesh, fetches,
                    detector, lastScoredTime, isRunning, videoState, currentTime >>

\* lines 69-140: the settings change the detection model: a new detector and
\* handler, then the render with the new detector and the new loop
SetDetectionModel(model) ==
    /\ model \in Models
    /\ model # detectionModel
    /\ detectionModel' = model
    /\ detector' = NewDetector(model, actionMesh, processedVideoUrl)
    /\ chains' = LoopEffect(chains, detector')
    /\ Bounded(chains')
    /\ emitted' = NoEvent
    /\ tick' = NoTick
    /\ UNCHANGED << call, page, backends, processedVideoUrl, actionMesh, fetches, lastScoredTime,
                    isRunning, videoState, currentTime >>

\* lines 49-56: the parent passes the url of another processed video: the
\* video element shows it from its start, and its mesh is requested
SetProcessedVideoUrl(url) ==
    /\ url # Null
    /\ url # processedVideoUrl
    /\ BagCardinality(fetches) < MaxFetches
    /\ processedVideoUrl' = url
    /\ fetches' = Add(fetches, url)
    /\ videoState' = "paused"
    /\ currentTime' = 0
    /\ emitted' = NoEvent
    /\ tick' = NoTick
    /\ UNCHANGED << call, page, backends, detectionModel, actionMesh, detector, lastScoredTime,
                    isRunning, chains >>

\* lines 50-53: the parent takes the processed video away
ClearProcessedVideoUrl ==
    /\ processedVideoUrl # Null
    /\ processedVideoUrl' = Null
    /\ actionMesh' = Null
    /\ videoState' = "paused"
    /\ currentTime' = 0
    /\ emitted' = NoEvent
    /\ tick' = NoTick
    /\ UNCHANGED << call, page, backends, detectionModel, fetches, detector, lastScoredTime,
                    isRunning, chains >>

\* lines 57-61: the request made for url is answered with its file
MeshLoaded(url) ==
    /\ url \in BagToSet(fetches)
    /\ fetches' = Remove(fetches, url)
    /\ actionMesh' = MeshOf(url)
    /\ emitted' = NoEvent
    /\ tick' = NoTick
    /\ UNCHANGED << call, page, backends, detectionModel, processedVideoUrl, detector,
                    lastScoredTime, isRunning, chains, videoState, currentTime >>

\* lines 62-65: the request made for url fails
MeshLoadFailed(url) ==
    /\ url \in BagToSet(fetches)
    /\ fetches' = Remove(fetches, url)
    /\ actionMesh' = Null
    /\ emitted' = NoEvent
    /\ tick' = NoTick
    /\ UNCHANGED << call, page, backends, detectionModel, processedVideoUrl, detector,
                    lastScoredTime, isRunning, chains, videoState, currentTime >>

\* the steps the component can take once it shows a processed video
Handlers ==
    \/ \E c \in BagToSet(chains), r \in BackendResults : OnResults(c, r)
    \/ \E c \in BagToSet(chains) : SendResolves(c)
    \/ \E c \in BagToSet(chains) : SendRejects(c)
    \/ \E c \in BagToSet(chains) : VideoSendResolves(c)
    \/ \E c \in BagToSet(chains) : FrameFires(c)
    \/ OnPlay
    \/ OnPause
    \/ OnEnded
    \/ \E t \in Instants : TimePasses(t)
    \/ Rerender
    \/ \E m \in Models : SetDetectionModel(m)
    \/ \E u \in BagToSet(fetches) : MeshLoaded(u)
    \/ \E u \in BagToSet(fetches) : MeshLoadFailed(u)

\* a session on the video whose mesh is well formed, which starts on the
\* YouTube player or on the processed video
Next ==
    \/ Handlers
    \/ \E data \in {1, 2} : OnPlayerStateChange(data)
    \/ \E u \in VideoUrls : SetProcessedVideoUrl(u)

Spec == Init /\ [][Next]_vars

----------------------------------------------------------------------------
(* The Home page (part_001, page.tsx) and the detectors of its DanceCanvas *)

\* no component is mounted
Unmounted ==
    /\ detectionModel = MediaPipe
    /\ processedVideoUrl = Null
    /\ actionMesh = Null
    /\ fetches = EmptyBag
    /\ detector = NewDetector(MediaPipe, Null, Null)
    /\ lastScoredTime = InitialLastScoredTime
    /\ isRunning = FALSE
    /\ chains = EmptyBag
    /\ videoState = "paused"
    /\ currentTime = 0
    /\ emitted = NoEvent
    /\ tick = NoTick
    /\ page = InitialPage
    /\ backends = InitialBackends

component ==
    << detectionModel, processedVideoUrl, actionMesh, fetches, detector,
       lastScoredTime, isRunning, chains, videoState, currentTime, emitted, tick,
       page, backends >>

\* at most this many runs of the detector effect
MaxEffects == 3

\* at most this many score events between two resets
MaxEvents == 3

\* at most this many updates of the score waiting for a render
MaxPending == 2

\* the points DanceCanvas hands to onScoreUpdate: those of the classifier and
\* those of the loop's demo score
EventPoints ==
    { getScoreFeedback(s).points : s \in { 5000, 7000, 8500, 9500 } }
    \cup { e.points : e \in RandomEvents }

\* variant that adds to the score of the render it was created in: C29 does
\* not hold of it
handleScoreUpdateOfRender(points, score) == [op |-> "set", n |-> score + points]

\* lines 44-47: setScore(prev => prev + points)
handleScoreUpdate(points, score) == [op |-> "add", n |-> points]

\* the render applies the waiting updates in their order
RECURSIVE ApplyUpdates(_, _)
ApplyUpdates(score, queue) ==
    IF queue = << >> THEN score
    ELSE LET u == Head(queue)
         IN  ApplyUpdates(IF u.op = "add" THEN score + u.n ELSE u.n, Tail(queue))

\* part_003 lines 132-139: the cleanup of a run of the detector effect calls
\* close() on the `detector` of the render the run belongs to, if there is
\* one, and on nothing else
Cleanup(b) ==
    [b EXCEPT !.open = b.open \ { [run |-> b.captured, kind |-> "user"] }]

\* part_003 lines 69-131: a run of the detector effect in a render whose
\* `detector` is that of run `held`: two detectors are created and put in
\* the state
DetectorEffect(b, held) ==
    [runs |-> b.runs + 1,
     held |-> b.runs + 1,
     captured |-> held,
     open |-> b.open \cup { [run |-> b.runs + 1, kind |-> "user"],
                            [run |-> b.runs + 1, kind |-> "video"] }]

canvas ==
    << processedVideoUrl, actionMesh, fetches, detector, lastScoredTime,
       isRunning, chains, videoState, currentTime, emitted, tick, call >>

\* lines 28-35 and 156-160: a video is chosen, DanceCanvas is mounted with a
\* state of its own and its detector effect runs
handleStart ==
    /\ page.youtubeId = Null
    /\ backends.runs < MaxEffects
    /\ page' = [page EXCEPT !.youtubeId = "id",
                            !.score = ApplyUpdates(page.score, page.queue),
                            !.queue = << >>,
                            !.before = page.score,
                            !.last = "start"]
    /\ backends' = DetectorEffect(backends, 0)
    /\ UNCHANGED << detectionModel, canvas >>

\* lines 162-164: setYoutubeId(null); setScore(0): DanceCanvas is unmounted
\* and the cleanup of its detector effect runs
StopSession ==
    /\ page.youtubeId # Null
    /\ page' = [page EXCEPT
                   !.youtubeId = Null,
                   !.score = ApplyUpdates(page.score,
                                          Append(page.queue, [op |-> "set", n |-> 0])),
                   !.queue = << >>,
                   !.total = 0,
                   !.events = 0,
                   !.before = page.score,
                   !.last = "stop"]
    /\ backends' = [Cleanup(backends) EXCEPT !.held = 0, !.captured = 0]
    /\ UNCHANGED << detectionModel, canvas >>

\* DanceCanvas, or a loop it left behind, calls onScoreUpdate
ScoreUpdate(points) ==
    /\ backends.runs > 0
    /\ page.events < MaxEvents
    /\ Len(page.queue) < MaxPending
    /\ page' = [page EXCEPT
                   !.queue = Append(page.queue, handleScoreUpdate(points, page.score)),
                   !.total = page.total + points,
                   !.events = page.events + 1,
                   !.before = page.score,
                   !.last = "event"]
    /\ UNCHANGED << detectionModel, backends, canvas >>

\* the page renders with the waiting updates applied
Render ==
    /\ page.queue # << >>
    /\ page' = [page EXCEPT !.score = ApplyUpdates(page.score, page.queue),
                            !.queue = << >>,
                            !.before = page.score,
                            !.last = "render"]
    /\ UNCHANGED << detectionModel, backends, canvas >>

\* the settings change the detection model; a mounted DanceCanvas runs the
\* cleanup of its detector effect and then the effect, in the render that
\* holds the detector of the run before
ChangeModel(model) ==
    /\ model \in Models
    /\ model # detectionModel
    /\ detectionModel' = model
    /\ IF page.youtubeId = Null
       THEN backends' = backends
       ELSE /\ backends.runs < MaxEffects
            /\ backends' = DetectorEffect(Cleanup(backends), backends.held)
    /\ UNCHANGED << page, canvas >>

InitApp == Unmounted /\ call = NoCall

NextApp ==
    \/ handleStart
    \/ StopSession
    \/ \E p \in EventPoints : ScoreUpdate(p)
    \/ Render
    \/ \E m \in Models : ChangeModel(m)

SpecApp == InitApp /\ [][NextApp]_vars

----------------------------------------------------------------------------
(* The animation loop under fair scheduling *)

\* a session on the processed video
InitLoop == Init /\ processedVideoUrl # Null

\* the steps that start, run and stop the loop
NextLoop ==
    \/ \E c \in BagToSet(chains) : SendResolves(c)
    \/ \E c \in BagToSet(chains) : SendRejects(c)
    \/ \E c \in BagToSet(chains) : VideoSendResolves(c)
    \/ \E c \in BagToSet(chains) : FrameFires(c)
    \/ OnPlay
    \/ OnPause
    \/ OnEnded
    \/ \E t \in Instants : TimePasses(t)

\* the browser runs every frame it was asked for, and every send is settled;
\* nothing obliges the user to play, or the video to go on
LoopFairness ==
    /\ WF_vars(\E c \in BagToSet(chains) : FrameFires(c))
    /\ WF_vars(\E c \in BagToSet(chains) : SendResolves(c) \/ SendRejects(c))
    /\ WF_vars(\E c \in BagToSet(chains) : VideoSendResolves(c))

SpecLoop == InitLoop /\ [][NextLoop]_vars /\ LoopFairness

----------------------------------------------------------------------------
(* The functions of poseComparison.ts called on their own *)

Pending == "pending"

LocatorCalls ==
    { [fn |-> "findNearestCheckpoint", given |-> TRUE, times |-> ts,
       time |-> t, done |-> FALSE, result |-> Pending] :
          ts \in TimeLists, t \in QueryTimes }
    \cup
    { [fn |-> "findNearestCheckpoint", given |-> FALSE, times |-> << >>,
       time |-> t, done |-> FALSE, result |-> Pending] : t \in QueryTimes }

\* the first argument of the call: a mesh, or null
CallMesh == IF call.given THEN Checkpoints(call.times, Len(call.times)) ELSE Null

InitLocator == Unmounted /\ call \in LocatorCalls

Locate ==
    /\ call.fn = "findNearestCheckpoint"
    /\ ~call.done
    /\ call' = [call EXCEPT !.done = TRUE,
                            !.result = findNearestCheckpoint(CallMesh, call.time)]
    /\ UNCHANGED component

NextLocator == Locate

SpecLocator == InitLocator /\ [][NextLocator]_vars

\* the scores getScoreFeedback is called with on its own, in 1/100 points:
\* the tier bounds, their neighbours, and numbers outside of [0,100]
Scores ==
    { 0 - 100, 0, 4999, 5000, 6999, 7000, 8499, 8500, 9499, 9500, 10000, 10100 }

ClassifierCalls ==
    { [fn |-> "getScoreFeedback", s1 |-> a, s2 |-> b,
       done |-> FALSE, result |-> Pending] : a \in Scores, b \in Scores }

InitClassifier == Unmounted /\ call \in ClassifierCalls

\* two calls, one on each score
Classify ==
    /\ call.fn = "getScoreFeedback"
    /\ ~call.done
    /\ call' = [call EXCEPT !.done = TRUE,
                            !.result = [first |-> getScoreFeedback(call.s1),
                                        second |-> getScoreFeedback(call.s2)]]
    /\ UNCHANGED component

NextClassifier == Classify

SpecClassifier == InitClassifier /\ [][NextClassifier]_vars

\* the first n landmarks of ls, those of the joints in `joints` moved by d
RECURSIVE Displaced(_, _, _, _)
Displaced(ls, joints, d, n) ==
    IF n = 0 THEN << >>
    ELSE Append(Displaced(ls, joints, d, n - 1),
                IF n - 1 \in joints
                THEN Landmark(ls[n].x + d.x, ls[n].y + d.y, ls[n].z + d.z,
                              ls[n].visibility)
                ELSE ls[n])

\* the joints below the visibility threshold in one of the two sets
HiddenJoints(user, target) ==
    { j \in JointIndices : \/ user[j + 1].visibility < VisibilityThreshold
                           \/ target[j + 1].visibility < VisibilityThreshold }

\* the arguments that are sets of the backend's joint count
FullPoseNames == PoseNames \ { "upperBody", "empty", "null", "undefined" }

\* calculatePoseSimilarity called on a pair of full sets, and on the pair
\* that differs from it in the coordinates of the hidden joints
MovedCalls ==
    { [fn |-> "calculatePoseSimilarity, twice", user |-> u, target |-> t,
       done |-> FALSE, result |-> Pending] :
          u \in FullPoseNames, t \in FullPoseNames }

ScorerCalls ==
    { [fn |-> "calculatePoseSimilarity", user |-> u, target |-> t,
       done |-> FALSE, result |-> Pending] : u \in PoseNames, t \in PoseNames }

\* the scoring part of the result handler on its own: the mesh its closure
\* holds, the results it is handed, the reference time and the time of the
\* last score
HandlerCalls ==
    { [fn |-> "onResults", mesh |-> m, results |-> r, time |-> t,
       last |-> InitialLastScoredTime, done |-> FALSE, result |-> Pending] :
          m \in MeshIds, r \in BackendResults, t \in Instants }

InitScorer == Unmounted /\ call \in ScorerCalls \cup HandlerCalls \cup MovedCalls

Compare ==
    /\ call.fn = "calculatePoseSimilarity"
    /\ ~call.done
    /\ call' = [call EXCEPT !.done = TRUE,
                            !.result = calculatePoseSimilarity(PoseOf(call.user),
                                                               PoseOf(call.target))]
    /\ UNCHANGED component

Handle ==
    /\ call.fn = "onResults"
    /\ ~call.done
    /\ call' = [call EXCEPT !.done = TRUE,
                            !.result = Score(NewDetector(MediaPipe, call.mesh, "video"),
                                             Results(call.results), call.time,
                                             call.last)]
    /\ UNCHANGED component

CompareMoved ==
    /\ call.fn = "calculatePoseSimilarity, twice"
    /\ ~call.done
    /\ LET user == PoseOf(call.user)
           target == PoseOf(call.target)
           hidden == HiddenJoints(user, target)
       IN  call' = [call EXCEPT
               !.done = TRUE,
               !.result =
                   [plain |-> calculatePoseSimilarity(user, target),
                    moved |-> calculatePoseSimilarity(
                                  Displaced(user, hidden, [x |-> 7, y |-> 5, z |-> 3],
                                            NumJoints),
                                  Displaced(target, hidden, [x |-> 0 - 4, y |-> 9, z |-> 0 - 2],
                                            NumJoints))]]
    /\ UNCHANGED component

NextScorer == Compare \/ Handle \/ CompareMoved

SpecScorer == InitScorer /\ [][NextScorer]_vars

----------------------------------------------------------------------------
(* Sessions on other videos *)

\* a session on the processed video of one of the videos whose mesh is not
\* well formed
InitOdd == InitOn(OddVideoUrls) /\ processedVideoUrl # Null

NextOdd == Handlers

SpecOdd == InitOdd /\ [][NextOdd]_vars

\* The reference video changes during the life of the component.  Only the
\* effect on [processedVideoUrl, youtubeId] and the responses to its requests
\* write actionMesh, processedVideoUrl and fetches, so these steps alone
\* decide what the component holds as its mesh.
InitVideos == InitOn(VideoUrls \cup OddVideoUrls)

NextVideos ==
    \/ \E u \in VideoUrls \cup OddVideoUrls : SetProcessedVideoUrl(u)
    \/ ClearProcessedVideoUrl
    \/ \E u \in BagToSet(fetches) : MeshLoaded(u)
    \/ \E u \in BagToSet(fetches) : MeshLoadFailed(u)

SpecVideos == InitVideos /\ [][NextVideos]_vars

----------------------------------------------------------------------------
(* The run of the result handler held by `tick`, read for the claims *)

Ticked == tick.results # "none"

\* the handler's closure holds a mesh and a processed video, and the results
\* hold a pose: the handler reaches its scoring part
TickScores ==
    /\ Ticked
    /\ tick.det.mesh # Null
    /\ tick.det.url # Null
    /\ tick.results # "nobody"

\* the min-interval guard, from its reading in the specification
TickTooSoon == tick.time - tick.before < MinInterval

\* the checkpoints of the handler's mesh within the tolerance of the tick
TickNear ==
    IF tick.det.mesh = Null \/ MeshData(tick.det.mesh) = ObjectPayload THEN {}
    ELSE LET mesh == MeshData(tick.det.mesh)
         IN  { k \in 1..Len(mesh) : Abs(mesh[k].time - tick.time) <= Tolerance }

\* what the scorer and the classifier give for the tick's pose against the
\* checkpoint located
TickFeedback ==
    getScoreFeedback(
        Similarity[resultsToLandmarks(Results(tick.results)),
                   findNearestCheckpoint(MeshData(tick.det.mesh), tick.time)[1].landmarks])

\* the tick passed the guard, a checkpoint was located and classified
TickClassified == TickScores /\ ~TickTooSoon /\ TickNear # {}

TickUntouched == emitted = NoEvent /\ lastScoredTime = tick.before

----------------------------------------------------------------------------
(* Claims *)

\* C1: a result handled at a reference time less than MinInterval after
\* lastScoredTime emits no event and leaves lastScoredTime as it was, whatever
\* the pose and the mesh.
C1_MinIntervalGuard == (Ticked /\ TickTooSoon) => TickUntouched

\* a perfect pose 0.3 s after the tick at 1.00 that scored the same checkpoint
C1_Witness ==
    /\ TickScores
    /\ tick.results = "armsOut"
    /\ tick.before = 20
    /\ tick.time = 26
    /\ TickNear # {}
    /\ TickUntouched

\* C2: every event emitted comes from a scoring decision: a result was
\* handled, a checkpoint was located, the classifier gave points > 0, and the
\* event carries the classifier's points and label.
C2_EventsAreScored ==
    emitted # NoEvent =>
        /\ TickClassified
        /\ TickFeedback.points > 0
        /\ emitted = [points |-> TickFeedback.points,
                      feedback |-> TickFeedback.feedback]

\* C3: after a score at t, an end of playback and a new playback from 0, a
\* tick at a time before t for which a checkpoint is located and the
\* classifier gives points > 0 is not rejected: it emits.  (A tick can be
\* earlier than the last scored time only after such a restart.)
C3_RestartScores ==
    ( /\ TickScores
      /\ tick.time < tick.before
      /\ TickNear # {}
      /\ TickFeedback.points > 0 )
    => emitted # NoEvent

\* C4: before any score has been emitted, a tick for which a checkpoint is
\* located is not rejected by the min-interval guard, at any reference time
\* from 0 on.
C4_FirstTickPasses ==
    ( /\ TickScores
      /\ tick.before = InitialLastScoredTime
      /\ TickNear # {} )
    => ~ScoredRecently(tick.time, tick.before)

\* C5: a result delivered while the session is Idle (paused or ended) is
\* discarded: no event, lastScoredTime as it was.
C5_IdleDiscards == (Ticked /\ ~tick.running) => TickUntouched

\* C6: at most one loop invocation is alive at any time, and so at most one
\* detector.send of the user camera in flight.
C6_OneChain == BagCardinality(chains) <= 1

\* C7: a tick that locates a checkpoint and is classified with points > 0
\* emits the event of those points and that label and sets lastScoredTime to
\* its reference time, in the same run of the handler.
C7_ScoreEmitsAndStamps ==
    (TickClassified /\ TickFeedback.points > 0) =>
        /\ emitted = [points |-> TickFeedback.points,
                      feedback |-> TickFeedback.feedback]
        /\ lastScoredTime = tick.time

\* a "Great!" 0.3 s after the checkpoint at 1.00
C7_Witness ==
    /\ TickClassified
    /\ tick.results = "wristLow"
    /\ tick.time = 26
    /\ emitted = [points |-> 60, feedback |-> "Great!"]
    /\ lastScoredTime = 26

\* C8: a tick classified with 0 points emits nothing and leaves
\* lastScoredTime as it was, so the guard rejects no tick that follows it,
\* however soon.
C8_ZeroPointsKeepWindow ==
    (TickClassified /\ TickFeedback.points = 0) =>
        /\ TickUntouched
        /\ \A t \in Instants : t >= tick.time => ~ScoredRecently(t, lastScoredTime)

\* arms down at the checkpoint at 1.00, which shows arms out
C8_Witness ==
    /\ TickClassified
    /\ tick.results = "armsDown"
    /\ tick.time = 20
    /\ TickFeedback.points = 0
    /\ TickUntouched

\* C9: a tick for which no checkpoint lies within the tolerance emits no event
\* and leaves lastScoredTime as it was.
C9_NoCheckpointNoOp == (Ticked /\ TickNear = {}) => TickUntouched

\* a perfect pose at 0.5, between the checkpoints at 0 and at 1.00
C9_Witness ==
    /\ TickScores
    /\ ~TickTooSoon
    /\ tick.results = "armsOut"
    /\ tick.time = 10
    /\ TickNear = {}
    /\ TickUntouched

\* C10: while every detector in use is the stub backend, no event is emitted.
C10_StubNeverScores ==
    ( /\ detector.model = Meta3D
      /\ \A c \in BagToSet(chains) : c.det.model = Meta3D )
    => emitted = NoEvent

\* C11: when detector.send is rejected while the session is Active, the loop
\* invocation that awaited it still schedules the next tick: the step loses no
\* loop invocation and the session stays Active.
C11_RejectionKeepsLoop ==
    [][ \A c \in BagToSet(chains) :
            (isRunning /\ SendRejects(c)) =>
                /\ isRunning'
                /\ BagCardinality(chains') >= BagCardinality(chains) ]_vars

\* C12: a tick whose handler holds a payload that is no array of checkpoints
\* behaves as with an empty mesh: it emits nothing, leaves lastScoredTime and
\* throws nothing.
C12_MalformedIsEmpty ==
    (TickScores /\ MeshData(tick.det.mesh) = ObjectPayload) =>
        (TickUntouched /\ ~tick.threw)

C14_MeshNeverReverts ==
    [][ ( /\ processedVideoUrl # Null
          /\ actionMesh = MeshOf(processedVideoUrl)
          /\ processedVideoUrl' = processedVideoUrl )
        => actionMesh' \in { MeshOf(processedVideoUrl), Null } ]_vars

\* C15: two events emitted by consecutive steps of the component (results
\* delivered back to back, several frames in flight) have reference times at
\* least MinInterval apart, and lastScoredTime never decreases.
C15_EmissionsApart ==
    [][ /\ (emitted # NoEvent /\ emitted' # NoEvent) =>
               ReferenceTime' - ReferenceTime >= MinInterval
        /\ lastScoredTime' >= lastScoredTime ]_vars

\* the call of findNearestCheckpoint held by `call` has returned
Located == call.fn = "findNearestCheckpoint" /\ call.done

\* the least time distance of a checkpoint of the call's mesh from its query
LeastDistance ==
    CHOOSE d \in { Abs(call.times[k] - call.time) : k \in 1..Len(call.times) } :
        \A k \in 1..Len(call.times) : d <= Abs(call.times[k] - call.time)

\* C16: findNearestCheckpoint returns none for no mesh and for an empty mesh;
\* otherwise, when the least time distance of a checkpoint from the query is
\* within the tolerance it returns a checkpoint of the mesh at that least
\* distance, and none when the least distance exceeds the tolerance.
C16_LocatorContract ==
    Located =>
        IF ~call.given \/ Len(call.times) = 0 THEN call.result = Null
        ELSE IF LeastDistance > Tolerance THEN call.result = Null
        ELSE /\ call.result # Null
             /\ \E k \in 1..Len(call.times) :
                    /\ call.result[1] = CallMesh[k]
                    /\ Abs(CallMesh[k].time - call.time) = LeastDistance

\* mesh times 0.0, 1.0, 2.0 queried at 1.25: the checkpoint at 1.0
C16_Witness ==
    /\ Located
    /\ call.times = << 0, 20, 40 >>
    /\ call.time = 25
    /\ call.result # Null
    /\ call.result[1].time = 20

Compared == call.fn = "calculatePoseSimilarity" /\ call.done

\* the call of the handler's scoring part held by `call` has returned
Handled == call.fn = "onResults" /\ call.done

Missing(name) == name \in { "null", "undefined" }

\* C18: calculatePoseSimilarity throws nothing and returns a number in
\* [0,100] for every pair of Landmark Sets of equal length, of any length.
C18_ScoreInRange ==
    ( /\ Compared
      /\ ~Missing(call.user) /\ ~Missing(call.target)
      /\ Len(PoseOf(call.user)) = Len(PoseOf(call.target)) )
    => (call.result # Thrown /\ call.result \in 0..10000)

\* the two Landmark Sets of the call differ in length
LengthsDiffer ==
    /\ ~Missing(call.user) /\ ~Missing(call.target)
    /\ Len(PoseOf(call.user)) # Len(PoseOf(call.target))

\* the checkpoints of the handler call's mesh within the tolerance of its time
\* whose landmark count differs from that of the results
MismatchedNear ==
    IF call.results = "nobody" \/ call.mesh = "object" THEN {}
    ELSE { k \in 1..Len(MeshData(call.mesh)) :
             /\ Abs(MeshData(call.mesh)[k].time - call.time) <= Tolerance
             /\ Len(MeshData(call.mesh)[k].landmarks)
                    # Len(Results(call.results).poseLandmarks) }

\* C19: calculatePoseSimilarity returns 0 and throws nothing when a Landmark
\* Set is null or undefined or the two differ in length; and the result
\* handler emits nothing and throws nothing when the nearest checkpoint holds
\* a landmark count that differs from the results'.
C19_MismatchIsZero ==
    /\ (Compared /\ (Missing(call.user) \/ Missing(call.target) \/ LengthsDiffer))
           => call.result = 0
    /\ (Handled /\ MismatchedNear # {})
           => (call.result.emit = NoEvent /\ ~call.result.threw
               /\ call.result.last = call.last)

\* the backend's 33 landmarks against the checkpoint of 17, at the
\* checkpoint's time: the similarity is 0 and nothing is emitted
C19_Witness ==
    /\ Handled
    /\ call.mesh = "short" /\ call.results = "armsOut" /\ call.time = 20
    /\ MismatchedNear = { 1 }
    /\ call.result.emit = NoEvent
    /\ Similarity[ArmsOut, UpperBody] = 0

\* every landmark of the named set has visibility 1.0, and the set is full
AllVisible(name) ==
    /\ ~Missing(name)
    /\ Len(PoseOf(name)) = NumJoints
    /\ \A i \in 1..NumJoints : PoseOf(name)[i].visibility = 10

\* C20: the similarity of a full Landmark Set whose landmarks all have
\* visibility 1.0 with itself is 100.
C20_SelfMatch ==
    (Compared /\ call.user = call.target /\ AllVisible(call.user))
        => call.result = 10000

\* the set with every joint at one point scores 100 against itself
C20_Witness ==
    /\ Compared
    /\ call.user = "onePoint" /\ call.target = "onePoint"
    /\ call.result = 10000

\* the call's two Landmark Sets hold the backend's joint count each
FullPair ==
    /\ ~Missing(call.user) /\ ~Missing(call.target)
    /\ Len(PoseOf(call.user)) = NumJoints
    /\ Len(PoseOf(call.target)) = NumJoints

\* joint j is below the visibility threshold in one of the call's two sets
HiddenJoint(j) ==
    \/ PoseOf(call.user)[j + 1].visibility < VisibilityThreshold
    \/ PoseOf(call.target)[j + 1].visibility < VisibilityThreshold

\* C21: the similarity of two full Landmark Sets in which every joint is
\* below the visibility threshold in one of the two is 0.
C21_HiddenScoresZero ==
    (Compared /\ FullPair /\ \A j \in JointIndices : HiddenJoint(j))
        => call.result = 0

\* the even joints hidden on one side, the odd joints on the other
C21_Witness ==
    /\ Compared
    /\ call.user = "hiddenEven" /\ call.target = "hiddenOdd"
    /\ call.result = 0

\* no angle definition has its three joints visible in both sets
NoAngleUsable ==
    \A k \in 1..Len(anglePairs) :
        \/ HiddenJoint(anglePairs[k].joint)
        \/ HiddenJoint(anglePairs[k].parent1)
        \/ HiddenJoint(anglePairs[k].parent2)

\* the positional similarity of the call's two sets (lines 63-86)
PositionalSimilarity ==
    DistanceSimilarity(DistanceLoop(PoseOf(call.user), PoseOf(call.target), 0,
                                    [sum |-> 0, n |-> 0]))

\* C22: when no angle definition has its three joints visible in both sets,
\* the similarity is 0.4 times the positional similarity, hence at most 40;
\* and when no joint is visible in both sets the positional similarity is 0.
C22_WorstCaseTerms ==
    (Compared /\ FullPair /\ NoAngleUsable) =>
        /\ call.result = (PositionalSimilarity * 4) \div 10
        /\ call.result <= 4000
        /\ getScoreFeedback(call.result).points = 0
        /\ (\A j \in JointIndices : HiddenJoint(j)) => PositionalSimilarity = 0

\* shoulders and hips hidden, every other joint in place: 40
C22_Witness ==
    /\ Compared
    /\ call.user = "noTorso" /\ call.target = "armsOut"
    /\ NoAngleUsable
    /\ call.result = 4000

\* the calls of getScoreFeedback held by `call` have returned
Classified == call.fn = "getScoreFeedback" /\ call.done

\* C23: getScoreFeedback is monotonic: of two scores, the one that is at
\* least the other gets at least the other's points.
C23_Monotonic ==
    (Classified /\ call.s1 >= call.s2)
        => call.result.first.points >= call.result.second.points

\* 95 against 94.99: 100 points against 60
C23_Witness ==
    /\ Classified
    /\ call.s1 = 9500 /\ call.s2 = 9499
    /\ call.result.first.points = 100
    /\ call.result.second.points = 60

\* C24: getScoreFeedback gives (Perfect, 100) from 95, (Great, 60) from 85
\* to below 95, (Good, 30) from 70 to below 85, (Almost, 10) from 50 to
\* below 70 and (Keep trying, 0) below 50.
C24_Tiers ==
    Classified =>
        LET s == call.s1
            fb == call.result.first
        IN  /\ s >= 9500 => (fb.feedback = "Perfect!" /\ fb.points = 100)
            /\ (8500 <= s /\ s < 9500) => (fb.feedback = "Great!" /\ fb.points = 60)
            /\ (7000 <= s /\ s < 8500) => (fb.feedback = "Good!" /\ fb.points = 30)
            /\ (5000 <= s /\ s < 7000) => (fb.feedback = "Almost!" /\ fb.points = 10)
            /\ s < 5000 => (fb.feedback = "Keep trying!" /\ fb.points = 0)

\* the boundary score 85 lands in the tier Great
C24_Witness ==
    /\ Classified
    /\ call.s1 = 8500
    /\ call.result.first = [feedback |-> "Great!", points |-> 60]

\* the mesh of the current processed video has been loaded
MeshIsLoaded ==
    /\ processedVideoUrl # Null
    /\ actionMesh # Null
    /\ actionMesh = MeshOf(processedVideoUrl)

\* the checkpoints of the loaded mesh within the tolerance of the tick
LoadedNear ==
    IF actionMesh = Null \/ MeshData(actionMesh) = ObjectPayload THEN {}
    ELSE LET mesh == MeshData(actionMesh)
         IN  { k \in 1..Len(mesh) : Abs(mesh[k].time - tick.time) <= Tolerance }

\* what the scorer and the classifier give for the tick's pose against the
\* checkpoint located in the loaded mesh
LoadedFeedback ==
    getScoreFeedback(
        Similarity[resultsToLandmarks(Results(tick.results)),
                   findNearestCheckpoint(MeshData(actionMesh), tick.time)[1].landmarks])

\* C25: once the mesh of the current processed video is loaded, a result
\* with a pose that scores at least 50 against a checkpoint of that mesh
\* within the tolerance of the reference time, handled with the min-interval
\* guard satisfied, emits a score event, whenever the handler was registered.
C25_LoadedMeshIsUsed ==
    ( /\ Ticked
      /\ MeshIsLoaded
      /\ tick.results # "nobody"
      /\ ~TickTooSoon
      /\ LoadedNear # {}
      /\ LoadedFeedback.points > 0 )
    => emitted # NoEvent

\* the two calls of calculatePoseSimilarity held by `call` have returned
ComparedTwice == call.fn = "calculatePoseSimilarity, twice" /\ call.done

\* every landmark of the named full set has visibility exactly 0.5
AtThreshold(name) ==
    /\ ~Missing(name)
    /\ Len(PoseOf(name)) = NumJoints
    /\ \A i \in 1..NumJoints : PoseOf(name)[i].visibility = VisibilityThreshold

\* C26: two pairs of full Landmark Sets that differ only in the coordinates
\* of joints below the visibility threshold in one set of the pair get the
\* same similarity; and joints with visibility exactly 0.5 in both sets count
\* in both terms: such sets score 100 exactly when they are equal, and above
\* the 40 that the positional term alone can give.
C26_HiddenJointsIgnored ==
    /\ ComparedTwice => call.result.plain = call.result.moved
    /\ (Compared /\ AtThreshold(call.user) /\ AtThreshold(call.target))
           => /\ call.result > 4000
              /\ call.result = 10000 <=> call.user = call.target

\* the even joints hidden in the user's set and moved in both sets: the
\* similarity, which is not 0, stays
C26_Witness ==
    /\ ComparedTwice
    /\ call.user = "hiddenEven" /\ call.target = "wristLow"
    /\ call.result.plain > 0
    /\ call.result.moved = call.result.plain

\* C27: whenever the reference video is not playing, eventually it plays
\* again or no loop iteration is scheduled or in progress any more.
C27_LoopStopsWhenIdle ==
    [](~isRunning => <>(isRunning \/ chains = EmptyBag))

\* C28: every detector that is open was created by the run of the detector
\* effect a mounted DanceCanvas holds: after a change of the model or an
\* unmount, the detectors created before are closed.
C28_OnlyCurrentDetectorsOpen ==
    \A d \in backends.open : page.youtubeId # Null /\ d.run = backends.held

\* C29: the score with the waiting updates applied is the sum of the points
\* of the events since the last reset, so that the score shown is this sum
\* when no update waits; no step but Stop Session lowers the score shown,
\* and after Stop Session it is 0.
C29_ScoreIsSumOfEvents ==
    /\ ApplyUpdates(page.score, page.queue) = page.total
    /\ page.queue = << >> => page.score = page.total
    /\ page.last # "stop" => page.score >= page.before
    /\ page.last = "stop" => page.score = 0

\* two events waited for the same render, which shows their sum
C29_Witness ==
    /\ page.last = "render"
    /\ page.events = 2
    /\ page.before = 0
    /\ page.score = 110
    /\ page.total = 110

\* the first position of the call's mesh at the least distance from its query
FirstNearest ==
    CHOOSE k \in 1..Len(call.times) :
        /\ Abs(call.times[k] - call.time) = LeastDistance
        /\ \A j \in 1..(k - 1) : Abs(call.times[j] - call.time) > LeastDistance

\* C30: for a mesh in any order, when the least time distance from the query
\* is within the tolerance, findNearestCheckpoint returns the checkpoint at
\* the first position of the array that is at that distance.
C30_FirstOfTies ==
    (Located /\ call.given /\ Len(call.times) > 0 /\ LeastDistance <= Tolerance)
        => (call.result # Null /\ call.result[1] = CallMesh[FirstNearest])

\* times 1.4 and 1.0, in this order, queried at 1.2: the checkpoint at 1.4
C30_Witness ==
    /\ Located
    /\ call.times = << 28, 20 >>
    /\ call.time = 24
    /\ call.result # Null
    /\ call.result[1] = CallMesh[1]
    /\ call.result[1].time = 28

====
